---------------------------- MODULE Spec2Model ----------------------------
(***************************************************************************)
(* A model of ALifeStdDev/phylogeny/utils.py: the queries over a           *)
(* caller-owned phylogeny (a networkx.DiGraph whose nodes carry attribute  *)
(* dictionaries), the extant-taxa filter, the extraction of an ancestral   *)
(* lineage and the abstraction of a lineage into states.                   *)
(*                                                                         *)
(* The phylogeny is the triple nodes / edges / attrs.  One call runs at a  *)
(* time (the module is single-threaded); op names the function called last *)
(* and pc its position: "loop" inside one of the three while-True walks,   *)
(* "done" once it returned or raised.                                      *)
(***************************************************************************)
EXTENDS Integers, Sequences, FiniteSets, TLC

VARIABLES nodes, edges, attrs, op, pc, args, lineage_ids, abstract_lineage, ret

vars == <<nodes, edges, attrs, op, pc, args, lineage_ids, abstract_lineage, ret>>

\* Bounds of the model.
MaxNodes == 3      \* taxa of a phylogeny of arbitrary topology
MaxChain == 4      \* taxa of a chain 1 -> 2 -> ... -> n with varied attributes
MaxTime == 2       \* the largest time stamp

----------------------------------------------------------------------------
(* Python values.  A value is a pair <<type, payload>>; the two strings    *)
(* the code compares against are numbered in their lexicographic order     *)
(* ("none" < "present").                                                   *)

PyInt(i) == <<"int", i>>
PyStr(k) == <<"str", k>>
NONE == PyStr(0)         \* "none", the default not_destroyed_value
PRESENT == PyStr(1)      \* "present", the default time

\* a == b: values of different types are unequal, never an error.
PyEq(a, b) == a = b

\* a > b and a < b: "True", "False", or "TypeError" for str against int.
PyGt(a, b) ==
    IF a[1] # b[1] THEN "TypeError"
    ELSE IF a[2] > b[2] THEN "True" ELSE "False"

PyLt(a, b) ==
    IF a[1] # b[1] THEN "TypeError"
    ELSE IF a[2] < b[2] THEN "True" ELSE "False"

\* The reserved attribute names of abstract_asexual_lineage.
Reserved == {"node_state", "members", "state_id"}

\* d[k] = v on a dictionary.
DictSet(d, k, v) == (k :> v) @@ d

\* The elements of a finite set of integers in ascending order: the order in
\* which the graph iterates over its nodes (they were added in that order).
RECURSIVE SortedSeq(_)
SortedSeq(S) ==
    IF S = {} THEN << >>
    ELSE LET m == CHOOSE x \in S : \A y \in S : x <= y
         IN <<m>> \o SortedSeq(S \ {m})

----------------------------------------------------------------------------
(* The graph: what the code asks of networkx.                              *)

\* (Mutant of Successors: the graph read as undirected.)
SuccessorsUndirected(g, n) ==
    {e[2] : e \in {x \in g.edges : x[1] = n}} \cup {e[1] : e \in {x \in g.edges : x[2] = n}}

\* A graph g is a record [nodes, edges, attrs]; attrs[n] is the attribute
\* dictionary of node n.  phylogeny.predecessors(n), phylogeny.successors(n):
Predecessors(g, n) == {e[1] : e \in {x \in g.edges : x[2] = n}}
Successors(g, n) == {e[2] : e \in {x \in g.edges : x[1] = n}}

\* phylogeny.subgraph(ids).copy(): the induced subgraph, with its own
\* attribute dictionaries.
Subgraph(g, ids) ==
    LET keep == ids \cap g.nodes
    IN [nodes |-> keep,
        edges |-> {e \in g.edges : e[1] \in keep /\ e[2] \in keep},
        attrs |-> [n \in keep |-> g.attrs[n]]]

\* The weakly connected component of n: the nodes reached from n over the
\* edges taken in both directions.
RECURSIVE Reach(_, _, _)
Reach(N, E, S) ==
    LET T == S \cup {m \in N : \E s \in S : <<s, m>> \in E \/ <<m, s>> \in E}
    IN IF T = S THEN S ELSE Reach(N, E, T)

WeaklyConnectedComponents(g) == {Reach(g.nodes, g.edges, {n}) : n \in g.nodes}

----------------------------------------------------------------------------
(* Verification and rootedness queries.                                    *)

all_taxa_have_attribute(phylogeny, attribute) ==
    \A node \in phylogeny.nodes : attribute \in DOMAIN phylogeny.attrs[node]

all_taxa_have_attributes(phylogeny, attribute_list) ==
    \A node \in phylogeny.nodes : \A i \in 1..Len(attribute_list) :
        attribute_list[i] \in DOMAIN phylogeny.attrs[node]

is_asexual(phylogeny) ==
    \A node \in phylogeny.nodes : Cardinality(Predecessors(phylogeny, node)) <= 1

get_root_ids(phylogeny) ==
    SortedSeq({node \in phylogeny.nodes : Cardinality(Predecessors(phylogeny, node)) = 0})

get_num_roots(phylogeny) == Len(get_root_ids(phylogeny))

get_leaf_taxa_ids(phylogeny) ==
    SortedSeq({node \in phylogeny.nodes : Cardinality(Successors(phylogeny, node)) = 0})

\* nx.is_weakly_connected: the null graph is refused
\* (NetworkXPointlessConcept), any other graph is connected when it has one
\* weakly connected component.
has_single_root(phylogeny) ==
    IF phylogeny.nodes = {} THEN [kind |-> "raise", val |-> "NetworkXPointlessConcept"]
    ELSE [kind |-> "return",
          val |-> Cardinality(WeaklyConnectedComponents(phylogeny)) = 1]

get_num_independent_phylogenies(phylogeny) ==
    Cardinality(WeaklyConnectedComponents(phylogeny))

\* sorted(components, key=len, reverse=True): a stable sort of the components,
\* which networkx yields in the order of their first node.
RECURSIVE SortComponents(_)
SortComponents(C) ==
    IF C = {} THEN << >>
    ELSE LET Min(c) == CHOOSE x \in c : \A y \in c : x <= y
             first == CHOOSE c \in C : \A d \in C :
                         \/ Cardinality(c) > Cardinality(d)
                         \/ Cardinality(c) = Cardinality(d) /\ Min(c) <= Min(d)
         IN <<first>> \o SortComponents(C \ {first})

get_independent_phylogenies(phylogeny) ==
    LET components == SortComponents(WeaklyConnectedComponents(phylogeny))
    IN [i \in 1..Len(components) |-> Subgraph(phylogeny, components[i])]

\* (Mutant of Annotate: the entry is built anew, {"id": r}, and stored.)
AnnotateFresh(a, ids) ==
    [n \in DOMAIN a |-> IF n \in ids THEN ("id" :> PyInt(n)) ELSE a[n]]

\* for r in roots: roots[r]["id"] = r.  The dictionaries are the graph's own,
\* so the assignment is made on the graph's node data.
Annotate(a, ids) ==
    [n \in DOMAIN a |-> IF n \in ids THEN DictSet(a[n], "id", PyInt(n)) ELSE a[n]]

----------------------------------------------------------------------------
(* The extant taxa.                                                        *)

\* taxon_is_alive: "True", "False", or the exception an attribute lookup or a
\* comparison raises.  `or` and `and` evaluate their right operand only when
\* the left one does not decide.
taxon_is_alive(node, time, not_destroyed_value, destruction_attribute, origin_attribute) ==
    LET born ==
            IF time = PRESENT THEN "True"
            ELSE IF origin_attribute \notin DOMAIN node THEN "KeyError"
            ELSE PyLt(node[origin_attribute], time)
        destroyed_later ==
            IF destruction_attribute \notin DOMAIN node THEN "KeyError"
            ELSE PyGt(node[destruction_attribute], time)
    IN  IF "destruction_time" \notin DOMAIN node THEN "KeyError"
        ELSE IF PyEq(node["destruction_time"], not_destroyed_value) THEN born
        ELSE IF destroyed_later = "True" THEN born
        ELSE destroyed_later

\* The list comprehension over phylogeny.nodes of both extant queries: the
\* first exception ends it.
ExtantScan(phylogeny, time, not_destroyed_value, destruction_attribute, origin_attribute) ==
    LET alive(n) == taxon_is_alive(phylogeny.attrs[n], time, not_destroyed_value,
                                   destruction_attribute, origin_attribute)
        failing == {n \in phylogeny.nodes : alive(n) \notin {"True", "False"}}
    IN  IF failing # {}
        THEN [kind |-> "raise",
              val |-> alive(CHOOSE n \in failing : \A m \in failing : n <= m)]
        ELSE [kind |-> "return", val |-> {n \in phylogeny.nodes : alive(n) = "True"}]

\* validate_destruction_time, validate_origin_time, then the scan.
ExtantQuery(phylogeny, time, not_destroyed_value, destruction_attribute, origin_attribute) ==
    IF ~all_taxa_have_attribute(phylogeny, destruction_attribute)
    THEN [kind |-> "raise", val |-> "MissingAttribute"]
    ELSE IF time # PRESENT /\ ~all_taxa_have_attribute(phylogeny, origin_attribute)
    THEN [kind |-> "raise", val |-> "MissingAttribute"]
    ELSE ExtantScan(phylogeny, time, not_destroyed_value, destruction_attribute,
                    origin_attribute)

get_extant_taxa_ids(phylogeny, time, not_destroyed_value, destruction_attribute, origin_attribute) ==
    LET r == ExtantQuery(phylogeny, time, not_destroyed_value, destruction_attribute,
                         origin_attribute)
    IN IF r.kind = "raise" THEN r ELSE [kind |-> "return", val |-> SortedSeq(r.val)]

----------------------------------------------------------------------------
(* The three walks.  Each is a `while True` loop over a list whose last    *)
(* element is the walk's position; one iteration is one step.              *)

\* successor_ids[0], ancestor_ids[0]: the first of a list that holds one id
\* wherever the code reads it past the is_asexual / is_asexual_lineage check
\* (the smallest, when a mutated check lets a longer list through).
First(S) == CHOOSE x \in S : \A y \in S : x <= y

Last(ids) == ids[Len(ids)]

Range(seq) == {seq[i] : i \in 1..Len(seq)}

\* (Mutant of IsalStep: without the test of line 69, the first successor is
\* followed.)
IsalStepFollowsFirst(phylogeny, ids) ==
    LET successor_ids == Successors(phylogeny, Last(ids))
    IN  IF Cardinality(successor_ids) = 0 THEN [next |-> "True", ids |-> ids]
        ELSE [next |-> "loop", ids |-> Append(ids, First(successor_ids))]

\* One iteration of the loop of is_asexual_lineage at lineage_ids = ids:
\* the value returned, or the list after the append.
IsalStep(phylogeny, ids) ==
    LET successor_ids == Successors(phylogeny, Last(ids))
    IN  IF Cardinality(successor_ids) > 1 THEN [next |-> "False", ids |-> ids]
        ELSE IF Cardinality(successor_ids) = 0 THEN [next |-> "True", ids |-> ids]
        ELSE [next |-> "loop", ids |-> Append(ids, First(successor_ids))]

\* The loop run to its end.  The walk is deterministic, so once the list is
\* longer than the graph has nodes it has re-entered a node and repeats for
\* ever: the call does not return.
RECURSIVE IsalRun(_, _)
IsalRun(phylogeny, ids) ==
    IF Len(ids) > Cardinality(phylogeny.nodes) THEN "diverges"
    ELSE LET s == IsalStep(phylogeny, ids)
         IN IF s.next = "loop" THEN IsalRun(phylogeny, s.ids) ELSE s.next

is_asexual_lineage(phylogeny) ==
    LET lineage_ids0 == get_root_ids(phylogeny)
    IN IF Len(lineage_ids0) # 1 THEN "False" ELSE IsalRun(phylogeny, lineage_ids0)

\* (Mutant of ExtractStep: the walk goes to the descendants.)
ExtractStepDescends(phylogeny, ids) ==
    LET ancestor_ids == Successors(phylogeny, Last(ids))
    IN  IF Cardinality(ancestor_ids) = 0 THEN [next |-> "break", ids |-> ids]
        ELSE [next |-> "loop", ids |-> Append(ids, First(ancestor_ids))]

\* One iteration of the loop of extract_asexual_lineage.
ExtractStep(phylogeny, ids) ==
    LET ancestor_ids == Predecessors(phylogeny, Last(ids))
    IN  IF Cardinality(ancestor_ids) = 0 THEN [next |-> "break", ids |-> ids]
        ELSE [next |-> "loop", ids |-> Append(ids, First(ancestor_ids))]

----------------------------------------------------------------------------
(* abstract_asexual_lineage.  abstract_lineage is the nx.DiGraph under     *)
(* construction; state_id is its newest node.                              *)

EmptyGraph == [nodes |-> {}, edges |-> {}, attrs |-> << >>]

\* [lineage.nodes[id][attr] for attr in attribute_list]
Projection(lineage, id, attribute_list) ==
    [i \in 1..Len(attribute_list) |-> lineage.attrs[id][attribute_list[i]]]

\* for attr in attribute_list: state[attr] = lineage.nodes[id][attr]
SetAttributes(lineage, d, id, attribute_list) ==
    [k \in DOMAIN d \cup Range(attribute_list) |->
        IF k \in Range(attribute_list) THEN lineage.attrs[id][k] ELSE d[k]]

\* The root state (lines 326-337), assignment by assignment.
RootState(lineage, root_id, attribute_list, track_origin, track_destruction) ==
    LET node == lineage.attrs[root_id]
        d1 == DictSet(DictSet(<< >>, "state_id", 0),
                      "node_state", Projection(lineage, root_id, attribute_list))
        d2 == SetAttributes(lineage, d1, root_id, attribute_list)
        d3 == IF track_origin THEN DictSet(d2, "origin_time", node["origin_time"]) ELSE d2
        d4 == IF track_destruction
              THEN DictSet(d3, "destruction_time", node["destruction_time"])
              ELSE d3
    IN DictSet(d4, "members", (root_id :> node))

\* (Mutant of SameState: the comparison is made with the root state.)
SameStateAsRoot(al, sid, state) == al.attrs[0]["node_state"] = state

\* The comparison of line 346.
SameState(al, sid, state) == al.attrs[sid]["node_state"] = state

\* (Mutant of MergeMember: the members dictionary is replaced, not added to.)
MergeMemberReplaces(lineage, d, lineage_id, track_destruction) ==
    LET node == lineage.attrs[lineage_id]
        d1 == DictSet(d, "members", (lineage_id :> node))
    IN IF track_destruction
       THEN DictSet(d1, "destruction_time", node["destruction_time"])
       ELSE d1

\* The taxon joins the current state (lines 349-351).
MergeMember(lineage, d, lineage_id, track_destruction) ==
    LET node == lineage.attrs[lineage_id]
        d1 == DictSet(d, "members", (lineage_id :> node) @@ d["members"])
    IN IF track_destruction
       THEN DictSet(d1, "destruction_time", node["destruction_time"])
       ELSE d1

\* A new state (lines 358-365), assignment by assignment.
NewState(lineage, sid, lineage_id, attribute_list, track_origin) ==
    LET node == lineage.attrs[lineage_id]
        d1 == DictSet(DictSet(<< >>, "state_id", sid),
                      "node_state", Projection(lineage, lineage_id, attribute_list))
        d2 == IF track_origin THEN DictSet(d1, "origin_time", node["origin_time"]) ELSE d1
        d3 == SetAttributes(lineage, d2, lineage_id, attribute_list)
    IN DictSet(d3, "members", (lineage_id :> node))

\* One iteration of the loop of abstract_asexual_lineage (lines 341-365) on the
\* abstract lineage al, at lineage_id.
AbstractStep(lineage, al, lineage_id, attribute_list, track_origin, track_destruction) ==
    LET sid == Cardinality(al.nodes) - 1
        state == Projection(lineage, lineage_id, attribute_list)
    IN  IF SameState(al, sid, state)
        THEN [al EXCEPT !.attrs[sid] =
                            MergeMember(lineage, @, lineage_id, track_destruction)]
        ELSE [nodes |-> al.nodes \cup {sid + 1},
              edges |-> al.edges \cup {<<sid, sid + 1>>},
              attrs |-> (sid + 1 :> NewState(lineage, sid + 1, lineage_id,
                                              attribute_list, track_origin))
                        @@ al.attrs]

----------------------------------------------------------------------------
(* The phylogenies and the arguments the calls are made with.              *)

Traits == {PyInt(0), PyInt(1)}

\* A taxon as the simulation records it.
PlainTaxon == [trait |-> PyInt(0), origin_time |-> PyInt(0), destruction_time |-> NONE]

\* The taxa of a chain: a trait, and destroyed at MaxTime or not yet.
ChainTaxa ==
    {[trait |-> t, origin_time |-> PyInt(0), destruction_time |-> d] :
        t \in Traits, d \in {NONE, PyInt(MaxTime)}}

\* A dictionary over some of the attribute names: ABSENT leaves the key out.
ABSENT == <<"absent", 0>>

Taxon(dt, death, ot, members) ==
    LET v == [destruction_time |-> dt, death |-> death, origin_time |-> ot,
              members |-> members, trait |-> PyInt(0)]
    IN [k \in {x \in DOMAIN v : v[x] # ABSENT} |-> v[k]]

\* The taxa of a one-taxon phylogeny: every attribute the queries read may
\* be missing, and a second destruction attribute ("death") and a key named
\* as a reserved attribute ("members") may be there.
DestructionValues == {NONE} \cup {PyInt(t) : t \in 1..MaxTime}

LoneTaxa ==
    {Taxon(dt, death, ot, members) :
        dt \in {ABSENT} \cup DestructionValues,
        death \in {ABSENT} \cup DestructionValues,
        ot \in {ABSENT} \cup {PyInt(t) : t \in 0..MaxTime - 1},
        members \in {ABSENT, PyInt(0)}}

AllEdges(n) == {e \in (1..n) \X (1..n) : e[1] # e[2]}

\* The chain p[1] -> p[2] -> ... -> p[n].
ChainEdges(p) == {<<p[i], p[i + 1]>> : i \in 1..Len(p) - 1}

Identity(n) == [i \in 1..n |-> i]

Orders(n) == {p \in [1..n -> 1..n] : \A i, j \in 1..n : p[i] = p[j] => i = j}

Times == {PRESENT} \cup {PyInt(t) : t \in 1..MaxTime}

NotDestroyedValues == {NONE, PyInt(1)}

DestructionAttributes == {"destruction_time", "death"}

AttributeLists ==
    {<<"trait">>, <<"trait", "destruction_time">>, <<"members">>,
     <<"trait", "node_state">>, <<"state_id">>}

\* Taxon ids asked for: those of the largest phylogeny, so that some are missing
\* from a smaller one.
TaxaIds == 1..MaxNodes

\* The phylogenies the calls are made on: every graph of up to MaxNodes taxa
\* (cycles and several parents included) with taxa alike; the chains of up to
\* MaxChain taxa with traits and destruction times varied; the chains of up to
\* MaxNodes taxa in every order of their ids, with traits varied; one taxon
\* with every choice of attributes.
Init ==
    /\ \/ \E n \in 0..MaxNodes : \E E \in SUBSET AllEdges(n) :
            /\ nodes = 1..n
            /\ edges = E
            /\ attrs = [i \in 1..n |-> PlainTaxon]
       \/ \E n \in 1..MaxChain : \E a \in [1..n -> ChainTaxa] :
            /\ nodes = 1..n
            /\ edges = ChainEdges(Identity(n))
            /\ attrs = a
       \/ \E n \in 1..MaxNodes : \E p \in Orders(n) : \E t \in [1..n -> Traits] :
            /\ nodes = 1..n
            /\ edges = ChainEdges(p)
            /\ attrs = [i \in 1..n |-> [PlainTaxon EXCEPT !.trait = t[i]]]
       \/ \E t \in LoneTaxa :
            /\ nodes = {1}
            /\ edges = {}
            /\ attrs = (1 :> t)
    /\ op = "none"
    /\ pc = "idle"
    /\ args = << >>
    /\ lineage_ids = << >>
    /\ abstract_lineage = EmptyGraph
    /\ ret = [kind |-> "none"]

----------------------------------------------------------------------------
(* The calls.                                                              *)

\* The caller's graph.
phylogeny == [nodes |-> nodes, edges |-> edges, attrs |-> attrs]

\* No call is running: the next one can be made.
Idle == pc = "idle"

\* The call `name` with arguments a ends with r, on a graph it did not write to.
Finish(name, a, r) ==
    /\ op' = name
    /\ pc' = "done"
    /\ args' = a
    /\ ret' = r
    /\ lineage_ids' = << >>
    /\ abstract_lineage' = EmptyGraph
    /\ UNCHANGED <<nodes, edges>>

Return(v) == [kind |-> "return", val |-> v]
Raise(e) == [kind |-> "raise", val |-> e]

AllTaxaHaveAttribute ==
    /\ Idle
    /\ \E attribute \in {"origin_time", "death"} :
        Finish("all_taxa_have_attribute", [attribute |-> attribute],
               Return(all_taxa_have_attribute(phylogeny, attribute)))
    /\ UNCHANGED attrs

AllTaxaHaveAttributes ==
    /\ Idle
    /\ \E attribute_list \in {<<"trait", "destruction_time">>, <<"members">>} :
        Finish("all_taxa_have_attributes", [attribute_list |-> attribute_list],
               Return(all_taxa_have_attributes(phylogeny, attribute_list)))
    /\ UNCHANGED attrs

IsAsexual ==
    /\ Idle
    /\ Finish("is_asexual", << >>, Return(is_asexual(phylogeny)))
    /\ UNCHANGED attrs

HasSingleRoot ==
    /\ Idle
    /\ Finish("has_single_root", << >>, has_single_root(phylogeny))
    /\ UNCHANGED attrs

GetRootIds ==
    /\ Idle
    /\ Finish("get_root_ids", << >>, Return(get_root_ids(phylogeny)))
    /\ UNCHANGED attrs

GetRoots ==
    /\ Idle
    /\ LET roots == {node \in nodes : Cardinality(Predecessors(phylogeny, node)) = 0}
       IN /\ attrs' = Annotate(attrs, roots)
          /\ Finish("get_roots", << >>, Return([r \in roots |-> attrs'[r]]))

GetNumRoots ==
    /\ Idle
    /\ Finish("get_num_roots", << >>, Return(get_num_roots(phylogeny)))
    /\ UNCHANGED attrs

GetNumIndependentPhylogenies ==
    /\ Idle
    /\ Finish("get_num_independent_phylogenies", << >>,
              Return(get_num_independent_phylogenies(phylogeny)))
    /\ UNCHANGED attrs

GetIndependentPhylogenies ==
    /\ Idle
    /\ Finish("get_independent_phylogenies", << >>, Return(get_independent_phylogenies(phylogeny)))
    /\ UNCHANGED attrs

GetLeafTaxa ==
    /\ Idle
    /\ LET extant == {node \in nodes : Cardinality(Successors(phylogeny, node)) = 0}
       IN /\ attrs' = Annotate(attrs, extant)
          /\ Finish("get_leaf_taxa", << >>, Return([e \in extant |-> attrs'[e]]))

GetLeafTaxaIds ==
    /\ Idle
    /\ Finish("get_leaf_taxa_ids", << >>, Return(get_leaf_taxa_ids(phylogeny)))
    /\ UNCHANGED attrs

ExtantArgs(time, ndv, dattr) ==
    [time |-> time, not_destroyed_value |-> ndv, destruction_attribute |-> dattr,
     origin_attribute |-> "origin_time"]

GetExtantTaxaIds ==
    /\ Idle
    /\ \E time \in Times, ndv \in NotDestroyedValues, dattr \in DestructionAttributes :
        Finish("get_extant_taxa_ids", ExtantArgs(time, ndv, dattr),
               get_extant_taxa_ids(phylogeny, time, ndv, dattr, "origin_time"))
    /\ UNCHANGED attrs

\* The dictionary comprehension, then `for e in extant: extant[e]["id"] = e` on
\* the graph's own dictionaries; an exception leaves before the annotation.
GetExtantTaxa ==
    /\ Idle
    /\ \E time \in Times, ndv \in NotDestroyedValues, dattr \in DestructionAttributes :
        LET r == ExtantQuery(phylogeny, time, ndv, dattr, "origin_time")
        IN IF r.kind = "raise"
           THEN /\ UNCHANGED attrs
                /\ Finish("get_extant_taxa", ExtantArgs(time, ndv, dattr), r)
           ELSE /\ attrs' = Annotate(attrs, r.val)
                /\ Finish("get_extant_taxa", ExtantArgs(time, ndv, dattr),
                          Return([e \in r.val |-> attrs'[e]]))

\* A call enters its loop.
Enter(name, a, ids, al) ==
    /\ op' = name
    /\ pc' = "loop"
    /\ args' = a
    /\ ret' = [kind |-> "none"]
    /\ lineage_ids' = ids
    /\ abstract_lineage' = al
    /\ UNCHANGED <<nodes, edges, attrs>>

\* A call leaves its loop with r.
Leave(r) ==
    /\ pc' = "done"
    /\ ret' = r
    /\ UNCHANGED <<nodes, edges, attrs, op, args, lineage_ids, abstract_lineage>>

\* The loop goes round, the list one id longer.
Iterate(ids, al) ==
    /\ lineage_ids' = ids
    /\ abstract_lineage' = al
    /\ UNCHANGED <<nodes, edges, attrs, op, pc, args, ret>>

\* A walk that has taken more steps than the graph has nodes is on a cycle and
\* goes on for ever; the model follows it one step past the node count.
WithinGraph == Len(lineage_ids) <= Cardinality(nodes)

IsAsexualLineageCall ==
    /\ Idle
    /\ IF Len(get_root_ids(phylogeny)) # 1
       THEN Finish("is_asexual_lineage", << >>, Return(FALSE)) /\ UNCHANGED attrs
       ELSE Enter("is_asexual_lineage", << >>, get_root_ids(phylogeny), EmptyGraph)

IsAsexualLineageLoop ==
    /\ op = "is_asexual_lineage" /\ pc = "loop"
    /\ WithinGraph
    /\ LET s == IsalStep(phylogeny, lineage_ids)
       IN IF s.next = "loop" THEN Iterate(s.ids, abstract_lineage)
          ELSE Leave(Return(s.next = "True"))

ExtractAsexualLineageCall ==
    /\ Idle
    /\ \E taxa_id \in TaxaIds :
        IF taxa_id \notin nodes
        THEN Finish("extract_asexual_lineage", [taxa_id |-> taxa_id], Raise("NotFound"))
             /\ UNCHANGED attrs
        ELSE IF ~is_asexual(phylogeny)
        THEN Finish("extract_asexual_lineage", [taxa_id |-> taxa_id], Raise("NotAsexual"))
             /\ UNCHANGED attrs
        ELSE Enter("extract_asexual_lineage", [taxa_id |-> taxa_id], <<taxa_id>>,
                   EmptyGraph)

ExtractAsexualLineageLoop ==
    /\ op = "extract_asexual_lineage" /\ pc = "loop"
    /\ WithinGraph
    /\ LET s == ExtractStep(phylogeny, lineage_ids)
       IN IF s.next = "loop" THEN Iterate(s.ids, abstract_lineage)
          ELSE Leave(Return(Subgraph(phylogeny, Range(lineage_ids))))

\* Lines 317-318, with origin_time_attr and destruction_time_attr at their
\* defaults.  The graph does not change during the call, so the two flags are
\* the same wherever they are read.
track_origin == all_taxa_have_attribute(phylogeny, "origin_time")
track_destruction == all_taxa_have_attribute(phylogeny, "destruction_time")

\* Lines 305-337: the checks, in the code's order, and the root state.  The
\* call hangs in is_asexual_lineage when that walk does not end.  The two time
\* attributes are left at their defaults.
AbstractAsexualLineageCall ==
    /\ Idle
    /\ \E attribute_list \in AttributeLists :
        LET a == [attribute_list |-> attribute_list]
            name == "abstract_asexual_lineage"
        IN  IF is_asexual_lineage(phylogeny) = "diverges"
            THEN /\ op' = name /\ pc' = "hung" /\ args' = a
                 /\ ret' = [kind |-> "none"]
                 /\ lineage_ids' = << >> /\ abstract_lineage' = EmptyGraph
                 /\ UNCHANGED <<nodes, edges, attrs>>
            ELSE IF is_asexual_lineage(phylogeny) = "False"
            THEN Finish(name, a, Raise("NotAsexualLineage")) /\ UNCHANGED attrs
            ELSE IF ~all_taxa_have_attributes(phylogeny, attribute_list)
            THEN Finish(name, a, Raise("MissingAttribute")) /\ UNCHANGED attrs
            ELSE IF Range(attribute_list) \cap Reserved # {}
            THEN Finish(name, a, Raise("ReservedAttribute")) /\ UNCHANGED attrs
            ELSE LET root_id == get_root_ids(phylogeny)[1]
                 IN Enter(name, a, <<root_id>>,
                          [nodes |-> {0}, edges |-> {},
                           attrs |-> (0 :> RootState(phylogeny, root_id, attribute_list,
                                                     track_origin, track_destruction))])

\* Lines 340-367.  lineage_ids keeps the ids lineage_id has taken; the code
\* holds the last one only.
AbstractAsexualLineageLoop ==
    /\ op = "abstract_asexual_lineage" /\ pc = "loop"
    /\ WithinGraph
    /\ LET successor_ids == Successors(phylogeny, Last(lineage_ids))
       IN IF Cardinality(successor_ids) = 0 THEN Leave(Return(abstract_lineage))
          ELSE LET lineage_id == First(successor_ids)
               IN Iterate(Append(lineage_ids, lineage_id),
                          AbstractStep(phylogeny, abstract_lineage, lineage_id,
                                       args.attribute_list,
                                       track_origin, track_destruction))

\* The caller has the result (or the exception) and is back between calls; the
\* locals of the call are gone.
CallReturns ==
    /\ pc = "done"
    /\ op' = "none"
    /\ pc' = "idle"
    /\ args' = << >>
    /\ ret' = [kind |-> "none"]
    /\ lineage_ids' = << >>
    /\ abstract_lineage' = EmptyGraph
    /\ UNCHANGED <<nodes, edges, attrs>>

Next ==
    \/ CallReturns
    \/ AllTaxaHaveAttribute
    \/ AllTaxaHaveAttributes
    \/ IsAsexual
    \/ IsAsexualLineageCall
    \/ IsAsexualLineageLoop
    \/ HasSingleRoot
    \/ GetRootIds
    \/ GetRoots
    \/ GetNumRoots
    \/ GetNumIndependentPhylogenies
    \/ GetIndependentPhylogenies
    \/ GetLeafTaxa
    \/ GetLeafTaxaIds
    \/ GetExtantTaxaIds
    \/ GetExtantTaxa
    \/ ExtractAsexualLineageCall
    \/ ExtractAsexualLineageLoop
    \/ AbstractAsexualLineageCall
    \/ AbstractAsexualLineageLoop

Spec == Init /\ [][Next]_vars

----------------------------------------------------------------------------
(* What the properties speak of.                                           *)

\* The ancestors of n: the nodes from which n is reached over one edge or more.
RECURSIVE AncestorClosure(_, _)
AncestorClosure(g, S) ==
    LET T == S \cup UNION {Predecessors(g, m) : m \in S}
    IN IF T = S THEN S ELSE AncestorClosure(g, T)

Ancestors(g, n) == AncestorClosure(g, Predecessors(g, n))

Acyclic(g) == \A n \in g.nodes : n \notin Ancestors(g, n)

RootsOf(g) == {n \in g.nodes : Predecessors(g, n) = {}}
LeavesOf(g) == {n \in g.nodes : Successors(g, n) = {}}

\* One simple directed path through all the nodes.
IsSimplePath(g) ==
    /\ g.nodes # {}
    /\ Acyclic(g)
    /\ Cardinality(RootsOf(g)) = 1
    /\ \A n \in g.nodes : /\ Cardinality(Predecessors(g, n)) <= 1
                          /\ Cardinality(Successors(g, n)) <= 1

Returned(name) == op = name /\ pc = "done" /\ ret.kind = "return"

----------------------------------------------------------------------------
(* C1.  get_extant_taxa_ids, whenever all taxa carry destruction_attribute  *)
(* (and origin_attribute, unless time is "present"), returns exactly the    *)
(* taxa whose destruction_attribute value equals not_destroyed_value or is  *)
(* strictly after time, and whose origin_attribute value is strictly before *)
(* time unless time is "present".                                           *)

StrictlyAfter(a, b) == a[1] = b[1] /\ a[2] > b[2]
StrictlyBefore(a, b) == a[1] = b[1] /\ a[2] < b[2]

AliveAsSpecified(node, time, not_destroyed_value, destruction_attribute, origin_attribute) ==
    /\ \/ node[destruction_attribute] = not_destroyed_value
       \/ StrictlyAfter(node[destruction_attribute], time)
    /\ \/ time = PRESENT
       \/ StrictlyBefore(node[origin_attribute], time)

\* The values the claim orders against time are of time's type.
Orderable(node, time, not_destroyed_value, destruction_attribute, origin_attribute) ==
    /\ \/ node[destruction_attribute] = not_destroyed_value
       \/ node[destruction_attribute][1] = time[1]
    /\ \/ time = PRESENT
       \/ node[origin_attribute][1] = time[1]

\* C1: the ids returned are exactly those of the taxa alive as the claim defines
\* it, for every destruction_attribute the taxa carry.
C1_ExtantIdsAsSpecified ==
    (/\ op = "get_extant_taxa_ids" /\ pc = "done"
     /\ all_taxa_have_attribute(phylogeny, args.destruction_attribute)
     /\ args.time # PRESENT => all_taxa_have_attribute(phylogeny, args.origin_attribute)
     /\ \A n \in nodes : Orderable(attrs[n], args.time, args.not_destroyed_value,
                                    args.destruction_attribute, args.origin_attribute))
    => /\ ret.kind = "return"
       /\ ret.val = SortedSeq({n \in nodes :
                        AliveAsSpecified(attrs[n], args.time, args.not_destroyed_value,
                                         args.destruction_attribute,
                                         args.origin_attribute)})

----------------------------------------------------------------------------
(* C2.  With the destruction time on every taxon, every state of the        *)
(* abstract lineage returned carries a destruction_time, that of its last   *)
(* member in chain order.                                                   *)

Position(ids, id) == CHOOSE i \in 1..Len(ids) : ids[i] = id

LastMember(ids, members) ==
    CHOOSE m \in DOMAIN members :
        \A o \in DOMAIN members : Position(ids, o) <= Position(ids, m)

\* C2: every state has the destruction_time of its last member.
C2_EveryStateHasLastDestructionTime ==
    (Returned("abstract_asexual_lineage") /\ track_destruction)
    => \A k \in ret.val.nodes :
          LET state == ret.val.attrs[k]
          IN /\ "destruction_time" \in DOMAIN state
             /\ state["destruction_time"] =
                    attrs[LastMember(lineage_ids, state["members"])]["destruction_time"]

----------------------------------------------------------------------------
(* C7.  A reserved name in attribute_list makes abstract_asexual_lineage    *)
(* fail with the reserved-attribute error, whatever the lineage.            *)

\* C7: on a lineage, a reserved name in attribute_list raises the reserved-
\* attribute collision error.
C7_ReservedNameRaisesCollision ==
    (/\ op = "abstract_asexual_lineage" /\ pc = "done"
     /\ Range(args.attribute_list) \cap Reserved # {}
     /\ IsSimplePath(phylogeny))
    => ret.kind = "raise" /\ ret.val = "ReservedAttribute"

----------------------------------------------------------------------------
(* C8.  has_single_root tells whether the phylogeny has exactly one root.   *)

\* C8: on a non-empty graph (here: an acyclic one, as every phylogeny is)
\* has_single_root is True with one root and False with several.
C8_HasSingleRootCountsRoots ==
    (op = "has_single_root" /\ pc = "done" /\ nodes # {} /\ Acyclic(phylogeny))
    => /\ ret.kind = "return"
       /\ get_num_roots(phylogeny) = 1 => ret.val = TRUE
       /\ get_num_roots(phylogeny) > 1 => ret.val = FALSE

----------------------------------------------------------------------------
(* C10.  On a non-empty acyclic graph is_asexual_lineage is true exactly    *)
(* when the graph is one simple directed path through all its nodes.        *)

\* C10: is_asexual_lineage returns True iff the acyclic graph is a simple path.
C10_LineageIffSimplePath ==
    (Returned("is_asexual_lineage") /\ nodes # {} /\ Acyclic(phylogeny))
    => (ret.val <=> IsSimplePath(phylogeny))

\* An acyclic graph with one root and a taxon with two parents is refused.
C10_Witness ==
    /\ Returned("is_asexual_lineage") /\ Acyclic(phylogeny)
    /\ Cardinality(RootsOf(phylogeny)) = 1
    /\ \E n \in nodes : Cardinality(Predecessors(phylogeny, n)) = 2
    /\ ret.val = FALSE

----------------------------------------------------------------------------
(* C6.  On an acyclic asexual graph extract_asexual_lineage returns the     *)
(* subgraph induced on taxa_id and its ancestors: a simple directed path    *)
(* from a root of the graph to taxa_id, which is_asexual_lineage accepts.   *)

\* C6: the lineage extracted is the induced subgraph on the taxon and all its
\* ancestors, a path from a root of the graph to the taxon.
C6_ExtractIsAncestralPath ==
    (Returned("extract_asexual_lineage") /\ Acyclic(phylogeny))
    => LET lineage == ret.val
           ids == {args.taxa_id} \cup Ancestors(phylogeny, args.taxa_id)
       IN /\ lineage.nodes = ids
          /\ lineage.edges = {e \in edges : e[1] \in ids /\ e[2] \in ids}
          /\ lineage.attrs = [n \in ids |-> attrs[n]]
          /\ IsSimplePath(lineage)
          /\ RootsOf(lineage) \subseteq RootsOf(phylogeny)
          /\ LeavesOf(lineage) = {args.taxa_id}
          /\ is_asexual_lineage(lineage) = "True"

\* A lineage of three taxa or more is extracted from a larger phylogeny.
C6_Witness ==
    /\ Returned("extract_asexual_lineage") /\ Acyclic(phylogeny)
    /\ Cardinality(ret.val.nodes) >= 3
    /\ ret.val.nodes # nodes

----------------------------------------------------------------------------
(* C9.  The walks of is_asexual_lineage, extract_asexual_lineage and        *)
(* abstract_asexual_lineage end within as many iterations as the graph has  *)
(* nodes, at the first node without successor (without predecessor for the  *)
(* backward walk).                                                          *)

Walks == {"is_asexual_lineage", "extract_asexual_lineage", "abstract_asexual_lineage"}

InWalk == op \in Walks /\ pc \in {"loop", "done"} /\ lineage_ids # << >>

\* Where the walk looks for the next node.
Onward(n) ==
    IF op = "extract_asexual_lineage" THEN Predecessors(phylogeny, n)
    ELSE Successors(phylogeny, n)

\* is_asexual_lineage left its loop at a node with several successors.
Refused == op = "is_asexual_lineage" /\ ret.val = FALSE

\* C9 as stated, for every finite graph: the list of a walk never holds more
\* ids than the graph has nodes.
C9_WalksBoundedOnEveryGraph == InWalk => Len(lineage_ids) <= Cardinality(nodes)

\* C9 amended, for acyclic graphs: the walk visits no node twice, so its list
\* holds at most as many ids as the graph has nodes and the loop is never cut
\* short; it moves along edges, over nodes that have a next node, and returns
\* at the first node that has none.
C9_WalksBoundedOnAcyclic ==
    (InWalk /\ Acyclic(phylogeny))
    => /\ Len(lineage_ids) <= Cardinality(nodes)
       /\ \A i, j \in 1..Len(lineage_ids) : lineage_ids[i] = lineage_ids[j] => i = j
       /\ \A i \in 1..Len(lineage_ids) - 1 : lineage_ids[i + 1] \in Onward(lineage_ids[i])
       /\ \A i \in 1..Len(lineage_ids) - 1 : Onward(lineage_ids[i]) # {}
       /\ (pc = "done" /\ ~Refused) => Onward(Last(lineage_ids)) = {}

\* A backward walk over all of a graph of three taxa or more has ended.
C9_Witness ==
    /\ Returned("extract_asexual_lineage") /\ Acyclic(phylogeny)
    /\ Len(lineage_ids) = Cardinality(nodes)
    /\ Cardinality(nodes) >= 3

----------------------------------------------------------------------------
(* C3.  In the abstract lineage returned no state is without members and    *)
(* every taxon of the input is a member of exactly one state.               *)

MembersOf(al, k) == DOMAIN al.attrs[k]["members"]

MembersPartition(al) ==
    /\ \A k \in al.nodes : MembersOf(al, k) # {}
    /\ \A t \in nodes : Cardinality({k \in al.nodes : t \in MembersOf(al, k)}) = 1

\* C3 as stated, for every graph the function accepts.
C3_MembersPartitionAccepted ==
    Returned("abstract_asexual_lineage") => MembersPartition(ret.val)

\* C3 amended, for every acyclic graph the function accepts.
C3_MembersPartitionAcyclic ==
    (Returned("abstract_asexual_lineage") /\ Acyclic(phylogeny))
    => MembersPartition(ret.val)

\* A lineage of three taxa or more gave two states or more, one of them with
\* several members.
C3_Witness ==
    /\ Returned("abstract_asexual_lineage") /\ Acyclic(phylogeny)
    /\ Cardinality(nodes) >= 3
    /\ Cardinality(ret.val.nodes) >= 2
    /\ \E k \in ret.val.nodes : Cardinality(MembersOf(ret.val, k)) >= 2

----------------------------------------------------------------------------
(* C4.  The abstract lineage is the run-length compression of the chain.    *)

\* The chain, root to tip: from the root along the only successor.
RECURSIVE ChainFrom(_, _)
ChainFrom(g, ids) ==
    IF Len(ids) > Cardinality(g.nodes) \/ Successors(g, Last(ids)) = {} THEN ids
    ELSE ChainFrom(g, Append(ids, First(Successors(g, Last(ids)))))

Chain(g) == ChainFrom(g, <<CHOOSE r \in RootsOf(g) : TRUE>>)

\* C4: the states are the maximal runs of equal projection, in chain order,
\* numbered from 0 and linked k -> k+1; adjacent states differ.
C4_RunLengthCompression ==
    Returned("abstract_asexual_lineage")
    => LET al == ret.val
           chain == Chain(phylogeny)
           proj(i) == Projection(phylogeny, chain[i], args.attribute_list)
           \* the run the i-th taxon is in: the changes of projection before it
           run(i) == Cardinality({j \in 2..i : proj(j) # proj(j - 1)})
           n == run(Len(chain)) + 1
           at(k) == {i \in 1..Len(chain) : run(i) = k}
       IN /\ al.nodes = 0..n - 1
          /\ al.edges = {<<k, k + 1>> : k \in 0..n - 2}
          /\ \A k \in 0..n - 1 :
                /\ al.attrs[k]["state_id"] = k
                /\ al.attrs[k]["members"] = [t \in {chain[i] : i \in at(k)} |-> attrs[t]]
                /\ \A i \in at(k) : al.attrs[k]["node_state"] = proj(i)
          /\ \A k \in 0..n - 2 : al.attrs[k]["node_state"] # al.attrs[k + 1]["node_state"]

\* Three states, the first of two members, the first and the third of the
\* same node_state.
C4_Witness ==
    /\ Returned("abstract_asexual_lineage")
    /\ Cardinality(ret.val.nodes) = 3
    /\ Cardinality(MembersOf(ret.val, 0)) = 2
    /\ ret.val.attrs[0]["node_state"] = ret.val.attrs[2]["node_state"]

----------------------------------------------------------------------------
(* C5.  Which calls write to the caller's graph.                            *)

\* The attribute dictionaries differ in the key "id" at most.
SameButId(a, b) ==
    \A n \in DOMAIN a :
        \A k \in (DOMAIN a[n] \cup DOMAIN b[n]) \ {"id"} :
            k \in DOMAIN a[n] /\ k \in DOMAIN b[n] /\ a[n][k] = b[n][k]

\* C5 as stated: no step changes the nodes or the edges, and only get_roots
\* and get_leaf_taxa change an attribute dictionary.
C5_OnlyRootsAndLeavesWrite ==
    [][/\ nodes' = nodes
       /\ edges' = edges
       /\ op' \notin {"get_roots", "get_leaf_taxa"} => attrs' = attrs]_vars

\* C5 amended: no step changes the nodes or the edges; only get_roots,
\* get_leaf_taxa and get_extant_taxa change an attribute dictionary, and they
\* change the key "id" alone.
C5_OnlyAnnotatingQueriesWrite ==
    [][/\ nodes' = nodes
       /\ edges' = edges
       /\ op' \notin {"get_roots", "get_leaf_taxa", "get_extant_taxa"} => attrs' = attrs
       /\ DOMAIN attrs' = DOMAIN attrs
       /\ SameButId(attrs, attrs')]_vars

\* A lineage was extracted from a graph that earlier calls had annotated in
\* part.
C5_Witness ==
    /\ Returned("extract_asexual_lineage")
    /\ \E n \in nodes : "id" \in DOMAIN attrs[n]
    /\ \E n \in nodes : "id" \notin DOMAIN attrs[n]

============================================================================
